---- MODULE Spec2Model ----
(***************************************************************************)
(* Schedy (hass-apps): the schedule resolution engine of a room            *)
(* (Room.eval_schedule) and the room's value reconciliation: periodic      *)
(* schedule timers, the single-shot re-schedule timer, manual value        *)
(* requests and values reported by the actors.                             *)
(***************************************************************************)
EXTENDS Integers, Sequences, FiniteSets, TLC

(***************************************************************************)
(* Bounds of the model.                                                    *)
(***************************************************************************)
\* Values an actor, an event or an expression can carry are 0..MaxValue.
MaxValue == 2
\* Iterations of the worklist loop of eval_schedule that are followed.
MaxLoop == 12

\* Python's None, for values, timer handles, schedules and expressions.
None == -1

Values == 0 .. MaxValue

Min(a, b) == IF a < b THEN a ELSE b

Max(a, b) == IF a > b THEN a ELSE b

(***************************************************************************)
(* expression.py: the results of an expression.  A result is a record      *)
(* [t |-> class name, v |-> payload]: the value of Result and Add, the     *)
(* levels of Break, the schedule of IncludeSchedule.  "Exception" is the   *)
(* exception object Room.eval_expr returns when the evaluation raised.     *)
(***************************************************************************)
Result(v) == [t |-> "Result", v |-> v]

Add(v) == [t |-> "Add", v |-> v]

Abort == [t |-> "Abort", v |-> None]

Break(levels) == [t |-> "Break", v |-> levels]

IncludeSchedule(s) == [t |-> "IncludeSchedule", v |-> s]

Skip == [t |-> "Skip", v |-> None]

Exception == [t |-> "Exception", v |-> None]

\* isinstance(r, expression.AddibleMixin)
IsAddible(r) == r.t \in {"Result", "Add"}

\* A value that is not a number: a text (all texts are one value here).
Text == 100

\* The TypeError that adding two values raises.
TypeError == [t |-> "TypeError", v |-> None]

\* An addition that forgets what was accumulated.
AddResults_DropLeft(left, right) == right

\* Add.__add__: the sum carries the type of the right operand.  The sum of
\* a number and a text raises TypeError, that of two texts is a text.
AddResults(left, right) ==
    IF (left.v = Text) # (right.v = Text) THEN TypeError
    ELSE IF left.v = Text THEN [t |-> right.t, v |-> Text]
    ELSE [t |-> right.t, v |-> left.v + right.v]

(***************************************************************************)
(* The actor type's validate_value: a value the actor type does not        *)
(* support raises ValueError.  Room._validate_value logs the error and     *)
(* returns None instead.                                                   *)
(***************************************************************************)
ValueSupported(v) == v \in Values /\ v # 0

validate_value(v) == IF ValueSupported(v) \/ v = Text THEN v ELSE None

(***************************************************************************)
(* schedule.py: rules, schedules and rule paths.  A rule is a record       *)
(* [kind, expr, value, sub_schedule]; a SubScheduleRule (kind "sub") may   *)
(* carry an expression or a value of its own, which the rules below it     *)
(* fall back to.  A schedule is the sequence of its rules, a RulePath is   *)
(* [root_schedule, rules].  Rules, schedules and expressions are named by  *)
(* numbers.                                                                *)
(*                                                                         *)
(* The schedules of the model:                                             *)
(*   schedule 1 (the room's):  rule 1 (sub-schedule 2, value 2),           *)
(*                             rule 6 (value 1)                            *)
(*   schedule 2:               rule 2 (sub-schedule 3, expr 3),            *)
(*                             rule 5 (expr 3)                             *)
(*   schedule 3:               rule 3 (expr 1), rule 4 (expr 2)            *)
(*   schedule 4 (a snippet):   rule 7 (expr 1), rule 8 (value 2)           *)
(***************************************************************************)
ValueRule(expr, value) ==
    [kind |-> "value", expr |-> expr, value |-> value, sub_schedule |-> None]

SubScheduleRule(sub, expr, value) ==
    [kind |-> "sub", expr |-> expr, value |-> value, sub_schedule |-> sub]

Exprs == {1, 2, 3}

RuleIds == 1 .. 8

ScheduleIds == 1 .. 4

TheRules ==
    <<SubScheduleRule(2, None, 2), SubScheduleRule(3, 3, None),
      ValueRule(1, None), ValueRule(2, None), ValueRule(3, None),
      ValueRule(None, 1), ValueRule(1, None), ValueRule(None, 2)>>

TheSchedules == <<(<<1, 6>>), (<<2, 5>>), (<<3, 4>>), (<<7, 8>>)>>

\* The schedule of the room and the schedule an expression can include.
RoomSchedule == 1

SnippetSchedule == 4

RulePath(root) == [root_schedule |-> root, rules |-> <<>>]

\* Schedule.get_matching_rules(when): the rules valid at the time, in the
\* configured order.  The time is given by the set of rules valid at it.
get_matching_rules(sched, valid) ==
    SelectSeq(TheSchedules[sched], LAMBDA r : r \in valid)

\* RulePath.rules_with_expr_or_value
rules_with_expr_or_value(path) ==
    SelectSeq(path.rules,
              LAMBDA r : TheRules[r].expr # None \/ TheRules[r].value # None)

\* rules[:n] of Python
Prefix(rules, n) == SubSeq(rules, 1, Min(n, Len(rules)))

(***************************************************************************)
(* Room.eval_schedule                                                      *)
(***************************************************************************)
\* An insert_paths that puts the new paths at the end of the list.
insert_paths_Append(paths, first_index, path_prefix, rules) ==
    paths \o [i \in 1 .. Len(rules) |->
                [path_prefix EXCEPT !.rules = Append(@, rules[i])]]

\* insert_paths: one path per rule, the rule appended to path_prefix,
\* inserted in order at first_index (counted from 0).
insert_paths(paths, first_index, path_prefix, rules) ==
    SubSeq(paths, 1, first_index)
    \o [i \in 1 .. Len(rules) |->
          [path_prefix EXCEPT !.rules = Append(@, rules[i])]]
    \o SubSeq(paths, first_index + 1, Len(paths))

\* No result yet: _result = None, and an expression not in expr_cache.
NoResult == [t |-> "None", v |-> None]

\* The loop over reversed(rules_with_expr_or_value), from rule i down: a
\* rule's expression is looked up in expr_cache or evaluated and cached, a
\* rule without expression gives its value; the first result other than
\* None ends the loop.  Gives the result, the cache and the expressions
\* evaluated.
RECURSIVE ScanRules(_, _, _, _, _)
\* A scan that goes on to the next rule up when a rule's result is Skip.
ScanResult_SkipFallsBack(rules, i, _result, expr_cache, evals, results) ==
    IF _result # NoResult /\ _result # Skip
    THEN [result |-> _result, expr_cache |-> expr_cache, evals |-> evals]
    ELSE ScanRules(rules, i - 1, expr_cache, evals, results)

ScanResult(rules, i, _result, expr_cache, evals, results) ==
    IF _result # NoResult
    THEN [result |-> _result, expr_cache |-> expr_cache, evals |-> evals]
    ELSE ScanRules(rules, i - 1, expr_cache, evals, results)

\* A scan that evaluates a rule's expression without looking it up in
\* expr_cache.
ScanRule_NoCache(rules, i, rule, expr_cache, evals, results) ==
    IF rule.expr # None
    THEN ScanResult(rules, i, results[rule.expr],
                    [expr_cache EXCEPT ![rule.expr] = results[rule.expr]],
                    Append(evals, rule.expr), results)
    ELSE IF rule.value # None
    THEN ScanResult(rules, i, Result(rule.value), expr_cache, evals, results)
    ELSE ScanResult(rules, i, NoResult, expr_cache, evals, results)

ScanRule(rules, i, rule, expr_cache, evals, results) ==
    IF rule.expr # None
    THEN IF expr_cache[rule.expr] # NoResult
         THEN ScanResult(rules, i, expr_cache[rule.expr], expr_cache, evals,
                         results)
         ELSE ScanResult(rules, i, results[rule.expr],
                         [expr_cache EXCEPT ![rule.expr] = results[rule.expr]],
                         Append(evals, rule.expr), results)
    ELSE IF rule.value # None
    THEN ScanResult(rules, i, Result(rule.value), expr_cache, evals, results)
    ELSE ScanResult(rules, i, NoResult, expr_cache, evals, results)

ScanRules(rules, i, expr_cache, evals, results) ==
    IF i = 0
    THEN [result |-> NoResult, expr_cache |-> expr_cache, evals |-> evals]
    ELSE ScanRule(rules, i, TheRules[rules[i]], expr_cache, evals, results)

\* A Break that deletes every path after the cursor that has the root
\* schedule of the breaking path, whatever its rules.
DeletePaths_SameRoot(paths, path_idx, path, prefix_size) ==
    SubSeq(paths, 1, path_idx)
    \o SelectSeq(SubSeq(paths, path_idx + 1, Len(paths)),
                 LAMBDA p : p.root_schedule # path.root_schedule)

\* A Break that deletes every path after the cursor that has the rule
\* prefix of the breaking path, whatever its root schedule.
DeletePaths_AnyRoot(paths, path_idx, path, prefix_size) ==
    SubSeq(paths, 1, path_idx)
    \o SelectSeq(SubSeq(paths, path_idx + 1, Len(paths)),
                 LAMBDA p : Prefix(p.rules, prefix_size)
                                # Prefix(path.rules, prefix_size))

\* A Break that deletes the path at the cursor only.
DeletePaths_One(paths, path_idx, path, prefix_size) ==
    IF /\ path_idx < Len(paths)
       /\ paths[path_idx + 1].root_schedule = path.root_schedule
       /\ Prefix(paths[path_idx + 1].rules, prefix_size)
              = Prefix(path.rules, prefix_size)
    THEN SubSeq(paths, 1, path_idx) \o SubSeq(paths, path_idx + 2, Len(paths))
    ELSE paths

\* The Break branch: paths are deleted at the cursor as long as the path
\* there has the root schedule and the rule prefix of the breaking path.
RECURSIVE DeletePaths(_, _, _, _)
DeletePaths(paths, path_idx, path, prefix_size) ==
    IF /\ path_idx < Len(paths)
       /\ paths[path_idx + 1].root_schedule = path.root_schedule
       /\ Prefix(paths[path_idx + 1].rules, prefix_size)
              = Prefix(path.rules, prefix_size)
    THEN DeletePaths(SubSeq(paths, 1, path_idx)
                         \o SubSeq(paths, path_idx + 2, Len(paths)),
                     path_idx, path, prefix_size)
    ELSE paths

(***************************************************************************)
(* The while loop works on the loop state                                  *)
(*   L = [paths, path_idx, result, expr_cache, evals, visited, yields,     *)
(*        done, ret]                                                       *)
(* where evals are the expressions evaluated, visited the paths taken      *)
(* from the worklist and yields the _result of each path that was          *)
(* evaluated, so far; done tells that the function returned and ret is     *)
(* <<value, rule>> when it returned a result.                              *)
(***************************************************************************)
\* A fold that does not return when the result is a Result.
FoldResult_GoOn(L, result, last_rule) == [L EXCEPT !.result = result]

\* result = _result if result is None else result + _result, and the
\* return when that is a Result.
FoldResult(L, result, last_rule) ==
    IF result.t = "Result"
    THEN [L EXCEPT !.result = result, !.done = TRUE,
                   !.ret = <<result.v, last_rule>>]
    ELSE [L EXCEPT !.result = result]

\* An addible branch that drops what was accumulated when the result is
\* skipped.
AddibleResult_Reset(L, _result, value, last_rule) ==
    IF value = None THEN [L EXCEPT !.result = NoResult]
    ELSE IF L.result = NoResult
    THEN FoldResult(L, [_result EXCEPT !.v = value], last_rule)
    ELSE IF AddResults(L.result, [_result EXCEPT !.v = value]) = TypeError
    THEN [L EXCEPT !.result = NoResult]
    ELSE FoldResult(L, AddResults(L.result, [_result EXCEPT !.v = value]),
                    last_rule)

\* The branch of an addible result, value being its validated value: a
\* result whose value was rejected, or that cannot be added to what was
\* accumulated (TypeError), is skipped.
AddibleResult(L, _result, value, last_rule) ==
    IF value = None THEN L
    ELSE IF L.result = NoResult
    THEN FoldResult(L, [_result EXCEPT !.v = value], last_rule)
    ELSE IF AddResults(L.result, [_result EXCEPT !.v = value]) = TypeError
    THEN L
    ELSE FoldResult(L, AddResults(L.result, [_result EXCEPT !.v = value]),
                    last_rule)

\* An Abort after which the loop goes on with the next path.
AbortResult_GoOn(L) == L

\* The Abort branch: break, and the return of None after the loop.
AbortResult(L) == [L EXCEPT !.done = TRUE]

\* An evaluation failure that ends the run like Abort.
ExceptionResult_Abort(L) == [L EXCEPT !.done = TRUE]

\* The branch for an exception from the evaluator: the path is skipped.
ExceptionResult(L) == L

\* The branches on the result of a path, L being the loop state with the
\* cursor advanced.
HandleResult(L, env, path, _result) ==
    CASE _result = NoResult -> L
      [] _result.t = "Exception" -> ExceptionResult(L)
      [] IsAddible(_result) ->
           AddibleResult(L, _result, validate_value(_result.v),
                         path.rules[Len(path.rules)])
      [] _result.t = "Abort" -> AbortResult(L)
      [] _result.t = "Break" ->
           [L EXCEPT !.paths =
               DeletePaths(L.paths, L.path_idx, path,
                           Max(0, Len(path.rules) - _result.v))]
      [] _result.t = "IncludeSchedule" ->
           [L EXCEPT !.paths =
               insert_paths(L.paths, L.path_idx, RulePath(_result.v),
                            get_matching_rules(_result.v, env.valid))]
      [] OTHER -> L

\* The path's result, from the scan of its rules.
EvalPath(L, env, path, scan) ==
    HandleResult([L EXCEPT !.expr_cache = scan.expr_cache,
                           !.evals = scan.evals,
                           !.yields = Append(@, [path |-> path,
                                                 result |-> scan.result])],
                 env, path, scan.result)

\* The body of the loop for the path at the cursor, L being the loop state
\* with the cursor advanced.
VisitPath(L, env, path, last_rule) ==
    IF last_rule.kind = "sub"
    THEN [L EXCEPT !.paths =
             insert_paths(L.paths, L.path_idx, path,
                 get_matching_rules(last_rule.sub_schedule, env.valid))]
    ELSE EvalPath(L, env, path,
             ScanRules(rules_with_expr_or_value(path),
                       Len(rules_with_expr_or_value(path)),
                       L.expr_cache, L.evals, env.results))

LoopBody(L, env) ==
    VisitPath([L EXCEPT !.path_idx = @ + 1,
                        !.visited = Append(@, L.paths[L.path_idx + 1])],
              env, L.paths[L.path_idx + 1],
              TheRules[L.paths[L.path_idx + 1].rules[
                           Len(L.paths[L.path_idx + 1].rules)]])

\* What eval_schedule returns, with what it did on the way: status is
\* "value" (a value and its rule), "none" (None) or "running" (the loop had
\* not ended after MaxLoop iterations).
Outcome(status, L) ==
    [status |-> status,
     value |-> IF status = "value" THEN L.ret[1] ELSE None,
     rule |-> IF status = "value" THEN L.ret[2] ELSE None,
     evals |-> L.evals, visited |-> L.visited]

RECURSIVE Loop(_, _, _)
Loop(L, env, fuel) ==
    IF L.done THEN Outcome(IF L.ret = <<>> THEN "none" ELSE "value", L)
    ELSE IF L.path_idx >= Len(L.paths) THEN Outcome("none", L)
    ELSE IF fuel = 0 THEN Outcome("running", L)
    ELSE Loop(LoopBody(L, env), env, fuel - 1)

\* The loop state before the first iteration.  env is the time and the
\* evaluation environment: the rules valid at the time and what each
\* expression evaluates to.
StartLoop(sched, env) ==
    [paths |-> insert_paths(<<>>, 0, RulePath(sched),
                            get_matching_rules(sched, env.valid)),
     path_idx |-> 0, result |-> NoResult,
     expr_cache |-> [e \in Exprs |-> NoResult],
     evals |-> <<>>, visited |-> <<>>, yields |-> <<>>,
     done |-> FALSE, ret |-> <<>>]

eval_schedule(sched, env) == Loop(StartLoop(sched, env), env, MaxLoop)

(***************************************************************************)
(* The state: a room with its actors, the timers armed with the host       *)
(* (AppDaemon), and a record of the handler that ran last.                 *)
(***************************************************************************)
VARIABLES
    pc,                 \* "init" before SchedyApp.initialize_inner, then "running"
    cfg,                \* the configuration of the app and the room
    wanted_value,       \* Room.wanted_value
    scheduled_value,    \* Room.scheduled_value
    reschedule_timer,   \* Room.reschedule_timer: a timer handle or None
    timers,             \* the handles of the timers armed with the host
    current_value,      \* Actor.current_value of each actor of the room
    last                \* the handler that ran last and what it did

vars == <<pc, cfg, wanted_value, scheduled_value, reschedule_timer, timers,
          current_value, last>>

\* The delay of the timer a schedy_reschedule event starts: 0.1 minutes.
\* Delays are counted in tenths of a minute.
RescheduleEventDelay == 1

Actors == 1 .. cfg.num_actors

\* What the expression of a schedy_set_value event can evaluate to.
ExprResults ==
    {Result(v) : v \in Values} \cup {Add(1)}
    \cup {Exception, IncludeSchedule(SnippetSchedule)}

\* The times and evaluation environments the room's handlers run in: all
\* rules are valid, or all but the last rule of the room's schedule and of
\* the snippet; the expressions of the rules evaluate to one of a few
\* results each.
Envs ==
    [valid : {RuleIds, RuleIds \ {6, 8}},
     results : {r \in [Exprs -> {Result(v) : v \in Values}
                                \cup {Abort, Skip, Exception, Break(1),
                                      IncludeSchedule(SnippetSchedule)}] :
                   /\ r[2] \in {Skip, Result(MaxValue), Break(1)}
                   /\ r[3] \in {Skip, Result(1), Abort}}]

\* eval_schedule of the room's schedule and of the snippet in every
\* environment.
Resolution == [s \in {RoomSchedule, SnippetSchedule}, e \in Envs |->
                  eval_schedule(s, e)]

\* The room's state depends on an environment only through the value a
\* schedule resolves to in it, so for each schedule one environment is
\* followed for every way its resolution can end.
ResolutionKind(sched, e) ==
    <<Resolution[sched, e].status, Resolution[sched, e].value>>

RoomEnvs ==
    {CHOOSE e \in Envs : ResolutionKind(RoomSchedule, e) = k :
        k \in {ResolutionKind(RoomSchedule, e) : e \in Envs}}

SnippetEnvs ==
    {CHOOSE e \in Envs : ResolutionKind(SnippetSchedule, e) = k :
        k \in {ResolutionKind(SnippetSchedule, e) : e \in Envs}}

\* The environments followed for a set_value_manually: only a schedule
\* that the expression includes is resolved in it.
AnyEnv == {CHOOSE e \in Envs : TRUE}

ExprEnvs(expr) == IF expr.t = "IncludeSchedule" THEN SnippetEnvs ELSE AnyEnv

(***************************************************************************)
(* The handlers work on a record M of the room's fields and the host's     *)
(* timers, to which they add what they did: the values pushed to the       *)
(* actors, the calls to the timer service, the resolutions of a schedule   *)
(* and the value returned.                                                 *)
(***************************************************************************)
Machine ==
    [wanted_value |-> wanted_value, scheduled_value |-> scheduled_value,
     reschedule_timer |-> reschedule_timer, timers |-> timers,
     pushes |-> <<>>, timer_calls |-> <<>>, resolutions |-> <<>>,
     ret |-> "None", result |-> <<>>]

\* The value the last resolution in M gave, None when it gave none or when
\* no schedule was resolved.
Resolved(outcome) == IF outcome.status = "value" THEN outcome.value ELSE None

LastResolved(M) ==
    IF M.resolutions = <<>> THEN None
    ELSE Resolved(M.resolutions[Len(M.resolutions)])

\* Room.set_value: the value becomes the wanted value and every actor of
\* the room gets it (Actor.set_value).
set_value(M, value, force_resend) ==
    [M EXCEPT !.wanted_value = value,
              !.pushes = Append(@, [value |-> value,
                                    force_resend |-> force_resend,
                                    actors |-> Actors])]

\* A cancelling that keeps the handle of the timer it cancelled.
cancel_reschedule_timer_KeepHandle(M) ==
    IF M.reschedule_timer = None
    THEN [M EXCEPT !.ret = "False"]
    ELSE [M EXCEPT !.timers = @ \ {M.reschedule_timer},
                   !.timer_calls =
                       Append(@, <<"cancel_timer", M.reschedule_timer>>),
                   !.ret = "True"]

\* Room.cancel_reschedule_timer
cancel_reschedule_timer(M) ==
    IF M.reschedule_timer = None
    THEN [M EXCEPT !.ret = "False"]
    ELSE [M EXCEPT !.timers = @ \ {M.reschedule_timer},
                   !.timer_calls =
                       Append(@, <<"cancel_timer", M.reschedule_timer>>),
                   !.reschedule_timer = None,
                   !.ret = "True"]

\* app.run_at gives a handle no armed timer has, h: a new one.
NewHandle(M) ==
    CHOOSE h \in 1 .. (Cardinality(M.timers) + 2) :
        h \notin M.timers /\ h # M.reschedule_timer

\* The end of Room.start_reschedule_timer: the timer is armed for the given
\* delay or else for the configured one, and its handle kept.
run_at(M, h, reschedule_delay) ==
    [M EXCEPT !.timers = @ \cup {h},
              !.timer_calls =
                  Append(@, <<"run_at", IF reschedule_delay = None
                                        THEN cfg.reschedule_delay
                                        ELSE reschedule_delay>>),
              !.reschedule_timer = h,
              !.ret = "True"]

\* A restart that arms the new timer and leaves the old one armed.
start_reschedule_timer_NoCancel(M, reschedule_delay, restart) ==
    IF M.reschedule_timer # None /\ ~restart
    THEN [M EXCEPT !.ret = "False"]
    ELSE run_at(M, NewHandle(M), reschedule_delay)

\* Room.start_reschedule_timer
start_reschedule_timer(M, reschedule_delay, restart) ==
    IF M.reschedule_timer # None
    THEN IF restart
         THEN run_at(cancel_reschedule_timer(M), NewHandle(M),
                     reschedule_delay)
         ELSE [M EXCEPT !.ret = "False"]
    ELSE run_at(M, NewHandle(M), reschedule_delay)

\* A get_scheduled_value that gives None while a re-schedule timer runs.
get_scheduled_value_WhileIdle(M, env) ==
    IF cfg.schedule = None \/ M.reschedule_timer # None THEN M
    ELSE [M EXCEPT !.resolutions = Append(@, Resolution[cfg.schedule, env])]

\* A get_scheduled_value that keeps the value it found as scheduled value.
get_scheduled_value_Keep(M, env) ==
    IF cfg.schedule = None THEN M
    ELSE [M EXCEPT !.resolutions = Append(@, Resolution[cfg.schedule, env]),
                   !.scheduled_value =
                       IF Resolution[cfg.schedule, env].status = "value"
                       THEN Resolution[cfg.schedule, env].value ELSE @]

\* Room.get_scheduled_value: None without a schedule.  Gives M with the
\* resolution added to M.resolutions.
get_scheduled_value(M, env) ==
    IF cfg.schedule = None THEN M
    ELSE [M EXCEPT !.resolutions = Append(@, Resolution[cfg.schedule, env])]

\* An applying that forgets the scheduled value when nothing was resolved.
ApplyResult_ClearOnNone(M, value, send, force_resend) ==
    IF value = None THEN [M EXCEPT !.scheduled_value = None]
    ELSE IF value = M.scheduled_value /\ ~force_resend THEN M
    ELSE IF ~send THEN [M EXCEPT !.scheduled_value = value]
    ELSE set_value([M EXCEPT !.scheduled_value = value], value, force_resend)

\* An applying that sends the value whatever send is.
ApplyResult_SendAlways(M, value, send, force_resend) ==
    IF value = None THEN M
    ELSE IF value = M.scheduled_value /\ ~force_resend THEN M
    ELSE set_value([M EXCEPT !.scheduled_value = value], value, force_resend)

\* An applying that does not compare the value with that of the last run.
ApplyResult_NoCompare(M, value, send, force_resend) ==
    IF value = None THEN M
    ELSE IF ~send THEN [M EXCEPT !.scheduled_value = value]
    ELSE set_value([M EXCEPT !.scheduled_value = value], value, force_resend)

\* An applying that compares the value with the wanted value.
ApplyResult_CompareWanted(M, value, send, force_resend) ==
    IF value = None THEN M
    ELSE IF value = M.wanted_value /\ ~force_resend THEN M
    ELSE IF ~send THEN [M EXCEPT !.scheduled_value = value]
    ELSE set_value([M EXCEPT !.scheduled_value = value], value, force_resend)

\* Room.apply_schedule from the result of get_scheduled_value on.
ApplyResult(M, value, send, force_resend) ==
    IF value = None THEN M
    ELSE IF value = M.scheduled_value /\ ~force_resend THEN M
    ELSE IF ~send THEN [M EXCEPT !.scheduled_value = value]
    ELSE set_value([M EXCEPT !.scheduled_value = value], value, force_resend)

ApplyResolved(M, send, force_resend) ==
    ApplyResult(M, LastResolved(M), send, force_resend)

\* An apply_schedule that a running re-schedule timer does not stop when
\* force_resend is given.
apply_schedule_ForceThrough(M, send, force_resend, env) ==
    IF M.reschedule_timer # None /\ ~force_resend THEN M
    ELSE ApplyResolved(get_scheduled_value(M, env), send, force_resend)

\* Room.apply_schedule
apply_schedule(M, send, force_resend, env) ==
    IF M.reschedule_timer # None THEN M
    ELSE ApplyResolved(get_scheduled_value(M, env), send, force_resend)

\* A callback that keeps the scheduled value of the last run.
reschedule_timer_cb_KeepScheduled(M, env) ==
    apply_schedule([M EXCEPT !.reschedule_timer = None], TRUE, FALSE, env)

\* Room._reschedule_timer_cb
reschedule_timer_cb(M, env) ==
    apply_schedule([M EXCEPT !.reschedule_timer = None,
                             !.scheduled_value = None],
                   TRUE, FALSE, env)

\* Room._schedule_timer_cb
schedule_timer_cb(M, env) == apply_schedule(M, TRUE, FALSE, env)

\* A comparison that leaves the timer running when the value reported is
\* the wanted one.
CompareWanted_KeepTimer(M, value) ==
    IF value = M.wanted_value THEN M
    ELSE IF cfg.reschedule_delay # 0
    THEN start_reschedule_timer(M, None, TRUE)
    ELSE M

\* Room.notify_value_changed after the change was replicated.
CompareWanted(M, value) ==
    IF value = M.wanted_value THEN cancel_reschedule_timer(M)
    ELSE IF cfg.reschedule_delay # 0
    THEN start_reschedule_timer(M, None, TRUE)
    ELSE M

\* Room.notify_value_changed
notify_value_changed(M, value) ==
    IF cfg.replicate_changes /\ cfg.num_actors > 1
    THEN CompareWanted(set_value(M, value, FALSE), value)
    ELSE CompareWanted(M, value)

\* A manual setting that leaves a running timer as it is.
SetManually_NoRestart(M, value, force_resend, reschedule_delay) ==
    IF value = None THEN M
    ELSE start_reschedule_timer(set_value(M, value, force_resend),
                                reschedule_delay, FALSE)

\* Room.set_value_manually from "if value is None" on.
SetManually(M, value, force_resend, reschedule_delay) ==
    IF value = None THEN M
    ELSE start_reschedule_timer(set_value(M, value, force_resend),
                                reschedule_delay, TRUE)

\* A request that pushes the value a schedule resolved to without arming
\* a timer.
SetResolved_NoTimer(M, force_resend, reschedule_delay) ==
    IF LastResolved(M) = None THEN M
    ELSE set_value(M, LastResolved(M), force_resend)

\* Room.set_value_manually with the value of the schedule it resolved.
SetResolved(M, force_resend, reschedule_delay) ==
    SetManually(M, LastResolved(M), force_resend, reschedule_delay)

\* Room.set_value_manually: expr is what the expression evaluates to, or
\* NoResult when the value is given.
set_value_manually(M, expr, value, force_resend, reschedule_delay, env) ==
    IF expr = NoResult
    THEN SetManually(M, value, force_resend, reschedule_delay)
    ELSE IF expr.t = "IncludeSchedule"
    THEN SetResolved([M EXCEPT !.resolutions =
                                   Append(@, Resolution[expr.v, env])],
                     force_resend, reschedule_delay)
    ELSE IF expr.t = "Result"
    THEN SetManually(M, validate_value(expr.v), force_resend,
                     reschedule_delay)
    ELSE M

(***************************************************************************)
(* The record of the handler that ran last: its name and arguments, the    *)
(* room before it, the values it pushed, its calls to the timer service,   *)
(* the values its resolutions of a schedule gave and what it returned.     *)
(***************************************************************************)
\* No time and environment given.
NoEnv == [valid |-> {}, results |-> [e \in Exprs |-> NoResult]]

NoArgs ==
    [send |-> FALSE, force_resend |-> FALSE, value |-> None,
     expr |-> NoResult, reschedule_delay |-> None, restart |-> FALSE,
     env |-> NoEnv]

\* The handler returned: no resolution of a schedule is still running.
Returns(M) == \A i \in 1 .. Len(M.resolutions) :
                  M.resolutions[i].status # "running"

Commit(M, op, args) ==
    /\ Returns(M)
    /\ wanted_value' = M.wanted_value
    /\ scheduled_value' = M.scheduled_value
    /\ reschedule_timer' = M.reschedule_timer
    /\ timers' = M.timers
    /\ last' = [op |-> op, args |-> args,
                pre |-> [wanted_value |-> wanted_value,
                         scheduled_value |-> scheduled_value,
                         reschedule_timer |-> reschedule_timer,
                         timers |-> timers],
                pushes |-> M.pushes, timer_calls |-> M.timer_calls,
                resolutions |-> [i \in 1 .. Len(M.resolutions) |->
                                    Resolved(M.resolutions[i])],
                ret |-> M.ret, result |-> M.result]

\* The configurations: the default one; no re-schedule delay; replication
\* of changes with one actor and with two; no schedule; no sending at
\* startup; no expressions in events.
DefaultConfig ==
    [replicate_changes |-> FALSE, reschedule_delay |-> 100, num_actors |-> 1,
     reschedule_at_startup |-> TRUE, expressions_from_events |-> TRUE,
     schedule |-> RoomSchedule]

Configs ==
    {DefaultConfig,
     [DefaultConfig EXCEPT !.reschedule_delay = 0],
     [DefaultConfig EXCEPT !.replicate_changes = TRUE],
     [DefaultConfig EXCEPT !.replicate_changes = TRUE, !.num_actors = 2],
     [DefaultConfig EXCEPT !.schedule = None],
     [DefaultConfig EXCEPT !.reschedule_at_startup = FALSE],
     [DefaultConfig EXCEPT !.expressions_from_events = FALSE]}

\* The room as Room.__init__ leaves it.
Init ==
    /\ pc = "init"
    /\ cfg \in Configs
    /\ wanted_value = None
    /\ scheduled_value = None
    /\ reschedule_timer = None
    /\ timers = {}
    /\ current_value = [a \in Actors |-> None]
    /\ last = [op |-> "__init__", args |-> NoArgs,
               pre |-> [wanted_value |-> None, scheduled_value |-> None,
                        reschedule_timer |-> None, timers |-> {}],
               pushes |-> <<>>, timer_calls |-> <<>>, resolutions |-> <<>>,
               ret |-> "None", result |-> <<>>]

\* SchedyApp.initialize_inner: Room.initialize restores the last scheduled
\* value from its sensor when that holds a valid value, then the schedule
\* is applied, sending only with reschedule_at_startup.
initialize_inner ==
    /\ pc = "init"
    /\ pc' = "running"
    /\ \E sensor \in {None} \cup {v \in Values : ValueSupported(v)},
          env \in RoomEnvs :
          Commit(apply_schedule([Machine EXCEPT !.scheduled_value = sensor],
                                cfg.reschedule_at_startup, FALSE, env),
                 "initialize_inner",
                 [NoArgs EXCEPT !.send = cfg.reschedule_at_startup,
                                !.value = sensor])
    /\ UNCHANGED <<cfg, current_value>>

\* A daily schedule timer fires (registered by Room.initialize for the
\* scheduling times of the room's schedule): Room._schedule_timer_cb.
ScheduleTimer ==
    /\ pc = "running"
    /\ cfg.schedule # None
    /\ \E env \in RoomEnvs :
          Commit(schedule_timer_cb(Machine, env), "_schedule_timer_cb",
                 [NoArgs EXCEPT !.send = TRUE])
    /\ UNCHANGED <<pc, cfg, current_value>>

\* An armed re-schedule timer fires: the host drops the single-shot timer
\* and calls Room._reschedule_timer_cb.
RescheduleTimer ==
    /\ pc = "running"
    /\ \E h \in timers, env \in RoomEnvs :
          Commit(reschedule_timer_cb([Machine EXCEPT !.timers = @ \ {h}], env),
                 "_reschedule_timer_cb", [NoArgs EXCEPT !.send = TRUE])
    /\ UNCHANGED <<pc, cfg, current_value>>

\* The force_resend and reschedule_delay a schedy_set_value event carries:
\* neither, or both.
EventOptions ==
    {[force_resend |-> FALSE, reschedule_delay |-> None],
     [force_resend |-> TRUE, reschedule_delay |-> 0]}

\* SchedyApp._set_value_event_cb with a value: Room.set_value_manually.
SetValueEvent ==
    /\ pc = "running"
    /\ \E value \in Values, opt \in EventOptions, env \in AnyEnv :
          Commit(set_value_manually(Machine, NoResult, value,
                                    opt.force_resend, opt.reschedule_delay,
                                    env),
                 "set_value_manually",
                 [NoArgs EXCEPT !.value = value])
    /\ UNCHANGED <<pc, cfg, current_value>>

\* SchedyApp._set_value_event_cb with an expression, which is ignored
\* unless expressions_from_events is configured.
SetExpressionEvent ==
    /\ pc = "running"
    /\ \E expr \in ExprResults, opt \in EventOptions :
        \E env \in ExprEnvs(expr) :
          LET args == [NoArgs EXCEPT !.expr = expr]
          IN  IF cfg.expressions_from_events
              THEN Commit(set_value_manually(Machine, expr, None,
                              opt.force_resend, opt.reschedule_delay, env),
                          "set_value_manually", args)
              ELSE Commit(Machine, "_set_value_event_cb", args)
    /\ UNCHANGED <<pc, cfg, current_value>>

\* SchedyApp._reschedule_event_cb
RescheduleEvent ==
    /\ pc = "running"
    /\ \E restart \in BOOLEAN :
          Commit(start_reschedule_timer(Machine, RescheduleEventDelay, restart),
                 "_reschedule_event_cb",
                 [NoArgs EXCEPT !.reschedule_delay = RescheduleEventDelay,
                                !.restart = restart])
    /\ UNCHANGED <<pc, cfg, current_value>>

\* Generic.notify_state_changed: an actor's entity reports a state other
\* than the actor's current value; the value_changed event calls
\* Room.notify_value_changed.
StateChanged ==
    /\ pc = "running"
    /\ \E actor \in Actors, state \in Values :
          /\ state # current_value[actor]
          /\ current_value' = [current_value EXCEPT ![actor] = state]
          /\ Commit(notify_value_changed(Machine, state),
                    "notify_value_changed", [NoArgs EXCEPT !.value = state])
    /\ UNCHANGED <<pc, cfg>>

Next ==
    \/ initialize_inner
    \/ ScheduleTimer
    \/ RescheduleTimer
    \/ SetValueEvent
    \/ SetExpressionEvent
    \/ RescheduleEvent
    \/ StateChanged

Spec == Init /\ [][Next]_vars

(***************************************************************************)
(* The methods of Room called directly, as the handlers above call them    *)
(* and as other code of the app may: apply_schedule with any send and      *)
(* force_resend, and cancel_reschedule_timer.  SpecApi is the room with    *)
(* the default configuration or without a schedule, under the events       *)
(* above and these calls.                                                  *)
(***************************************************************************)
ApplySchedule ==
    /\ pc = "running"
    /\ \E send \in BOOLEAN, force_resend \in BOOLEAN, env \in RoomEnvs :
          Commit(apply_schedule(Machine, send, force_resend, env),
                 "apply_schedule",
                 [NoArgs EXCEPT !.send = send, !.force_resend = force_resend])
    /\ UNCHANGED <<pc, cfg, current_value>>

CancelRescheduleTimer ==
    /\ pc = "running"
    /\ Commit(cancel_reschedule_timer(Machine), "cancel_reschedule_timer",
              NoArgs)
    /\ UNCHANGED <<pc, cfg, current_value>>

InitApi ==
    /\ Init
    /\ cfg \in {DefaultConfig, [DefaultConfig EXCEPT !.schedule = None]}

NextApi ==
    \/ Next
    \/ ApplySchedule
    \/ CancelRescheduleTimer

SpecApi == InitApi /\ [][NextApi]_vars

(***************************************************************************)
(* The room with its startup, its timers and manual requests for a value,  *)
(* and calls of Room.get_scheduled_value() at any time in any evaluation   *)
(* environment.                                                            *)
(***************************************************************************)
\* What get_scheduled_value returns to its caller: the value and the rule
\* of the resolution in M, nothing when there is none.
ReturnResolved(M) ==
    IF LastResolved(M) = None THEN M
    ELSE [M EXCEPT !.result = <<M.resolutions[Len(M.resolutions)].value,
                                M.resolutions[Len(M.resolutions)].rule>>]

\* The times and environments of the calls: those in which the room's
\* timers run, and every environment in which the last rule of the room's
\* schedule is not valid, so that the expressions decide.
QueryEnvs == RoomEnvs \cup {e \in Envs : e.valid = RuleIds \ {6, 8}}

\* A call of Room.get_scheduled_value() at some time.
GetScheduledValue ==
    /\ pc = "running"
    /\ \E env \in QueryEnvs :
          Commit(ReturnResolved(get_scheduled_value(Machine, env)),
                 "get_scheduled_value", [NoArgs EXCEPT !.env = env])
    /\ UNCHANGED <<pc, cfg, current_value>>

InitQuery ==
    /\ Init
    /\ cfg \in {DefaultConfig, [DefaultConfig EXCEPT !.schedule = None]}

NextQuery ==
    \/ initialize_inner
    \/ ScheduleTimer
    \/ RescheduleTimer
    \/ SetValueEvent
    \/ GetScheduledValue

SpecQuery == InitQuery /\ [][NextQuery]_vars

(***************************************************************************)
(* The room under a host that fires every armed timer and delivers         *)
(* finitely many events: schedy_set_value events arrive until some point   *)
(* (phase "requests"), reports of the actors until some later point        *)
(* (phase "reports"), and from then on only timers fire (phase "quiet").   *)
(* The phase is kept with the configuration, which no handler changes.     *)
(***************************************************************************)
LiveConfigs ==
    {[replicate_changes |-> c.replicate_changes,
      reschedule_delay |-> c.reschedule_delay, num_actors |-> c.num_actors,
      reschedule_at_startup |-> c.reschedule_at_startup,
      expressions_from_events |-> c.expressions_from_events,
      schedule |-> c.schedule, phase |-> "requests"] :
        c \in {d \in Configs : /\ d.schedule # None
                                /\ d.reschedule_delay # 0
                                /\ d.reschedule_at_startup
                                /\ d.expressions_from_events}}

InitLive ==
    /\ pc = "init"
    /\ cfg \in LiveConfigs
    /\ wanted_value = None
    /\ scheduled_value = None
    /\ reschedule_timer = None
    /\ timers = {}
    /\ current_value = [a \in Actors |-> None]
    /\ last = [op |-> "__init__", args |-> NoArgs,
               pre |-> [wanted_value |-> None, scheduled_value |-> None,
                        reschedule_timer |-> None, timers |-> {}],
               pushes |-> <<>>, timer_calls |-> <<>>, resolutions |-> <<>>,
               ret |-> "None", result |-> <<>>]

\* A schedy_set_value event arrives; a report of an actor arrives.
LiveSetValueEvent == cfg.phase = "requests" /\ SetValueEvent

LiveStateChanged == cfg.phase \in {"requests", "reports"} /\ StateChanged

\* The last schedy_set_value event has arrived; the last report has.
NoMoreRequests ==
    /\ pc = "running"
    /\ cfg.phase = "requests"
    /\ cfg' = [cfg EXCEPT !.phase = "reports"]
    /\ UNCHANGED <<pc, wanted_value, scheduled_value, reschedule_timer,
                   timers, current_value, last>>

NoMoreReports ==
    /\ pc = "running"
    /\ cfg.phase = "reports"
    /\ cfg' = [cfg EXCEPT !.phase = "quiet"]
    /\ UNCHANGED <<pc, wanted_value, scheduled_value, reschedule_timer,
                   timers, current_value, last>>

NextLive ==
    \/ initialize_inner
    \/ ScheduleTimer
    \/ RescheduleTimer
    \/ LiveSetValueEvent
    \/ LiveStateChanged
    \/ NoMoreRequests
    \/ NoMoreReports

\* An armed re-schedule timer fires (run_at is single-shot and the host
\* calls it when it is due): weak fairness of RescheduleTimer, which is
\* enabled exactly when a timer is armed.
TimersFire ==
    \/ []<>(pc = "running" => timers = {})
    \/ []<><<RescheduleTimer>>_vars

\* The daily schedule timers (run_daily) fire again and again.
BoundariesRecur == []<><<ScheduleTimer>>_vars

\* The host fires the timers, and the events end.
SpecLive ==
    /\ InitLive
    /\ [][NextLive]_vars
    /\ WF_vars(NoMoreRequests)
    /\ WF_vars(NoMoreReports)
    /\ TimersFire
    /\ BoundariesRecur

(***************************************************************************)
(* One call of Room.apply_schedule() in an idle room, with the loop of     *)
(* eval_schedule followed iteration by iteration.  The room, the time and  *)
(* what the expressions evaluate to are the inputs of the call; last       *)
(* holds them with the loop state L of the resolution.                     *)
(***************************************************************************)
\* What the expression of a rule can evaluate to.
EvalResults ==
    {Result(v) : v \in Values} \cup {Add(0), Add(1), Add(MaxValue), Add(Text)}
    \cup {Abort, Skip, Exception, Break(1), Break(2)}
    \cup {IncludeSchedule(SnippetSchedule), IncludeSchedule(RoomSchedule)}

\* The times and evaluation environments: all rules are valid, or all but
\* the last rule of the room's schedule and of the snippet, or all but the
\* first rule of the innermost sub-schedule, or none.
EvalEnvs ==
    [valid : {RuleIds, RuleIds \ {6, 8}, RuleIds \ {3}, {}},
     results : [Exprs -> EvalResults]]

\* The wanted and the scheduled value of the room at the call.
EvalRooms ==
    {[wanted_value |-> None, scheduled_value |-> None],
     [wanted_value |-> 2, scheduled_value |-> 1]}

\* Room.get_scheduled_value without a schedule: nothing is resolved.
NoLoop ==
    [paths |-> <<>>, path_idx |-> 0, result |-> NoResult,
     expr_cache |-> [e \in Exprs |-> NoResult],
     evals |-> <<>>, visited |-> <<>>, yields |-> <<>>,
     done |-> TRUE, ret |-> <<>>]

EvalCall(room, env) ==
    [op |-> "apply_schedule", args |-> [NoArgs EXCEPT !.send = TRUE],
     env |-> env,
     L |-> IF cfg.schedule = None THEN NoLoop
           ELSE StartLoop(cfg.schedule, env),
     pre |-> [wanted_value |-> room.wanted_value,
              scheduled_value |-> room.scheduled_value,
              reschedule_timer |-> None, timers |-> {}],
     pushes |-> <<>>, timer_calls |-> <<>>, resolutions |-> <<>>,
     ret |-> "None"]

InitEval ==
    /\ pc = "apply_schedule"
    /\ cfg \in {DefaultConfig, [DefaultConfig EXCEPT !.schedule = None]}
    /\ reschedule_timer = None
    /\ timers = {}
    /\ current_value = [a \in Actors |-> None]
    /\ \E room \in EvalRooms :
          /\ wanted_value = room.wanted_value
          /\ scheduled_value = room.scheduled_value
          /\ \E env \in IF cfg.schedule = None
                        THEN {CHOOSE e \in EvalEnvs : TRUE} ELSE EvalEnvs :
                last = EvalCall(room, env)

\* The loop of eval_schedule has ended: a return, a break or no path left.
LoopEnded(L) == L.done \/ L.path_idx >= Len(L.paths)

\* One iteration of the while loop of eval_schedule.
EvalStep ==
    /\ pc = "apply_schedule"
    /\ ~LoopEnded(last.L)
    /\ Len(last.L.visited) < MaxLoop
    /\ last' = [last EXCEPT !.L = LoopBody(@, last.env)]
    /\ UNCHANGED <<pc, cfg, wanted_value, scheduled_value, reschedule_timer,
                   timers, current_value>>

\* The value eval_schedule returns from the loop state L, None for None.
ReturnedValue(L) == IF L.ret = <<>> THEN None ELSE L.ret[1]

\* The room and the record of the call after Room.apply_schedule went on
\* to M with the value that was resolved.
ApplyCommit(M, value) ==
    /\ wanted_value' = M.wanted_value
    /\ scheduled_value' = M.scheduled_value
    /\ reschedule_timer' = M.reschedule_timer
    /\ timers' = M.timers
    /\ last' = [last EXCEPT !.pushes = M.pushes,
                            !.timer_calls = M.timer_calls,
                            !.resolutions = IF cfg.schedule = None THEN <<>>
                                            ELSE <<value>>,
                            !.ret = M.ret]

\* eval_schedule returns and Room.apply_schedule goes on with its result.
ApplyReturn ==
    /\ pc = "apply_schedule"
    /\ LoopEnded(last.L)
    /\ pc' = "returned"
    /\ ApplyCommit(ApplyResult(Machine, ReturnedValue(last.L), TRUE, FALSE),
                   ReturnedValue(last.L))
    /\ UNCHANGED <<cfg, current_value>>

NextEval ==
    \/ EvalStep
    \/ ApplyReturn

SpecEval == InitEval /\ [][NextEval]_vars

(***************************************************************************)
(* What the claims speak of, in terms of the record of the last handler.   *)
(***************************************************************************)
\* The handler was a periodic boundary: a schedule timer, or apply_schedule
\* called to send.
Boundary(r) ==
    /\ r.op \in {"_schedule_timer_cb", "apply_schedule"}
    /\ r.args.send

\* The room was idle (no re-schedule timer) when the handler began.
WasIdle(r) == r.pre.reschedule_timer = None

\* The handler pushed v to all actors of the room, once, and nothing else.
PushedOnce(r, v) ==
    /\ Len(r.pushes) = 1
    /\ r.pushes[1].value = v
    /\ r.pushes[1].actors = Actors

\* The room's values and timer are as they were before the handler, which
\* pushed nothing and did not call the timer service.
NothingDone(r) ==
    /\ r.pushes = <<>>
    /\ r.timer_calls = <<>>
    /\ wanted_value = r.pre.wanted_value
    /\ scheduled_value = r.pre.scheduled_value
    /\ reschedule_timer = r.pre.reschedule_timer
    /\ timers = r.pre.timers

\* A timer is armed with the host and the room holds its handle.
TimerArmed == reschedule_timer # None /\ timers = {reschedule_timer}

\* No timer is armed and the room holds no handle.
Idle == reschedule_timer = None /\ timers = {}

\* The value the handler's one resolution of a schedule gave, None when it
\* resolved none or the resolution gave none.
ResolvedValue(r) == IF Len(r.resolutions) = 1 THEN r.resolutions[1] ELSE None

\* What a manual request asks for: the value of the event, or the value
\* its expression evaluated to; None when the expression gave no value.
Requested(r) ==
    IF r.args.expr = NoResult THEN r.args.value
    ELSE IF r.args.expr.t = "Result" THEN r.args.expr.v
    ELSE None

\* The last call to the timer service armed a timer.
ArmedLast(r) ==
    /\ r.timer_calls # <<>>
    /\ r.timer_calls[Len(r.timer_calls)][1] = "run_at"

\* The handler cancelled the timer that ran before it, if one did, and
\* this before any other call to the timer service.
CancelledFirst(r) ==
    r.pre.reschedule_timer # None =>
        /\ r.timer_calls # <<>>
        /\ r.timer_calls[1] = <<"cancel_timer", r.pre.reschedule_timer>>
        /\ r.pre.reschedule_timer \notin timers

(***************************************************************************)
(* C1: when the schedule is applied twice in a row to send (by a schedule  *)
(* timer or a call of apply_schedule), the room idle, both runs resolving  *)
(* to the same value and that value not the scheduled one before the       *)
(* first run, the first run pushes the value once and the second pushes    *)
(* nothing; a second run with force_resend pushes the value once more.     *)
(***************************************************************************)
C1_NoRedundantPush ==
    [][(/\ Boundary(last) /\ WasIdle(last)
        /\ Boundary(last') /\ WasIdle(last')
        /\ ResolvedValue(last) # None
        /\ ResolvedValue(last) # last.pre.scheduled_value
        /\ ResolvedValue(last') = ResolvedValue(last))
       => /\ PushedOnce(last, ResolvedValue(last))
          /\ IF last'.args.force_resend
             THEN PushedOnce(last', ResolvedValue(last'))
             ELSE last'.pushes = <<>>]_vars

\* An apply_schedule with force_resend that resolved to the value already
\* scheduled and wanted has pushed it again.
C1_Witness ==
    /\ last.op = "apply_schedule" /\ Boundary(last) /\ WasIdle(last)
    /\ last.args.force_resend
    /\ ResolvedValue(last) # None
    /\ ResolvedValue(last) = last.pre.scheduled_value
    /\ ResolvedValue(last) = last.pre.wanted_value
    /\ PushedOnce(last, ResolvedValue(last))

(***************************************************************************)
(* C2: a schedule timer firing while the room is idle whose resolution     *)
(* gives a value other than the scheduled value of the last run pushes     *)
(* that value to all actors and records it as scheduled and as wanted      *)
(* value.                                                                  *)
(***************************************************************************)
C2_BoundaryPushesChange ==
    (/\ last.op = "_schedule_timer_cb" /\ WasIdle(last)
     /\ ResolvedValue(last) # None
     /\ ResolvedValue(last) # last.pre.scheduled_value)
    => /\ PushedOnce(last, ResolvedValue(last))
       /\ scheduled_value = ResolvedValue(last)
       /\ wanted_value = ResolvedValue(last)

\* A schedule timer changed the scheduled value of a room that had one.
C2_Witness ==
    /\ last.op = "_schedule_timer_cb" /\ WasIdle(last)
    /\ last.pre.scheduled_value # None
    /\ ResolvedValue(last) # None
    /\ ResolvedValue(last) # last.pre.scheduled_value
    /\ PushedOnce(last, ResolvedValue(last))

\* C2 as the specification words it: the value resolved is compared with
\* the wanted value.
C2_AsWorded ==
    (/\ last.op = "_schedule_timer_cb" /\ WasIdle(last)
     /\ ResolvedValue(last) # None
     /\ ResolvedValue(last) # last.pre.wanted_value)
    => /\ PushedOnce(last, ResolvedValue(last))
       /\ scheduled_value = ResolvedValue(last)
       /\ wanted_value = ResolvedValue(last)

(***************************************************************************)
(* C3: with a re-schedule delay configured, an actor's report of a value   *)
(* other than the wanted value arms a re-schedule timer, after cancelling  *)
(* the one that ran; also when changes are replicated to several actors.   *)
(***************************************************************************)
C3_DriftArmsTimer ==
    (/\ last.op = "notify_value_changed"
     /\ cfg.reschedule_delay # 0
     /\ last.args.value # last.pre.wanted_value)
    => /\ TimerArmed
       /\ ArmedLast(last)
       /\ CancelledFirst(last)

(***************************************************************************)
(* C4: an actor's report of the wanted value cancels the re-schedule       *)
(* timer that runs, arms none, and leaves the wanted and the scheduled     *)
(* value as they were.                                                     *)
(***************************************************************************)
C4_ReportOfWantedCancels ==
    (/\ last.op = "notify_value_changed"
     /\ last.args.value = last.pre.wanted_value)
    => /\ Idle
       /\ CancelledFirst(last)
       /\ \A i \in 1 .. Len(last.timer_calls) :
             last.timer_calls[i][1] # "run_at"
       /\ wanted_value = last.pre.wanted_value
       /\ scheduled_value = last.pre.scheduled_value

\* A report of the wanted value came while a timer ran.
C4_Witness ==
    /\ last.op = "notify_value_changed"
    /\ last.args.value = last.pre.wanted_value
    /\ last.pre.reschedule_timer # None
    /\ Idle

C6_RejectedRequestSkipped ==
    (/\ last.op = "set_value_manually"
     /\ Requested(last) # None
     /\ ~ValueSupported(Requested(last)))
    => NothingDone(last)

(***************************************************************************)
(* C7: when the re-schedule timer fires and the schedule resolves to a     *)
(* value, the value is pushed, also when it is the scheduled value of      *)
(* before, and afterwards the room is idle with that value as scheduled    *)
(* and as wanted value.                                                    *)
(***************************************************************************)
C7_RescheduleForcesPush ==
    (/\ last.op = "_reschedule_timer_cb"
     /\ ResolvedValue(last) # None)
    => /\ PushedOnce(last, ResolvedValue(last))
       /\ Idle
       /\ scheduled_value = ResolvedValue(last)
       /\ wanted_value = ResolvedValue(last)

\* The timer fired and the schedule resolved to the scheduled value of
\* before, while another value was wanted.
C7_Witness ==
    /\ last.op = "_reschedule_timer_cb"
    /\ ResolvedValue(last) # None
    /\ ResolvedValue(last) = last.pre.scheduled_value
    /\ ResolvedValue(last) # last.pre.wanted_value
    /\ PushedOnce(last, ResolvedValue(last))

(***************************************************************************)
(* C8: a schedule timer or a call of apply_schedule, with force_resend or  *)
(* without, while a re-schedule timer runs does nothing: it resolves no    *)
(* schedule, pushes nothing and leaves the room and its timer as they      *)
(* were.                                                                   *)
(***************************************************************************)
C8_TimerStopsApply ==
    (/\ last.op \in {"_schedule_timer_cb", "apply_schedule"}
     /\ ~WasIdle(last))
    => /\ last.resolutions = <<>>
       /\ NothingDone(last)
       /\ TimerArmed

\* apply_schedule was called to send with force_resend while a timer ran.
C8_Witness ==
    /\ last.op = "apply_schedule"
    /\ last.args.send /\ last.args.force_resend
    /\ ~WasIdle(last)
    /\ last.pre.wanted_value # last.pre.scheduled_value
    /\ TimerArmed

(***************************************************************************)
(* C9: at most one re-schedule timer is armed with the host, and the room  *)
(* holds a handle exactly when one is armed: the handle of that timer.     *)
(***************************************************************************)
C9_OneTimer ==
    /\ Cardinality(timers) <= 1
    /\ reschedule_timer # None <=> timers # {}
    /\ timers \subseteq {reschedule_timer}

\* A running timer was replaced by a new one.
C9_Witness ==
    /\ last.pre.reschedule_timer # None
    /\ ArmedLast(last)
    /\ TimerArmed
    /\ reschedule_timer # last.pre.reschedule_timer

(***************************************************************************)
(* C10: cancel_reschedule_timer without a timer returns False, calls no    *)
(* timer service and changes nothing; with a timer it returns True and     *)
(* cancels it, and a second call right after then returns False.           *)
(***************************************************************************)
C10_CancelIdempotent ==
    /\ [](last.op = "cancel_reschedule_timer" =>
            IF WasIdle(last)
            THEN last.ret = "False" /\ NothingDone(last)
            ELSE /\ last.ret = "True"
                 /\ last.timer_calls =
                        <<(<<"cancel_timer", last.pre.reschedule_timer>>)>>
                 /\ Idle)
    /\ [][(/\ last.op = "cancel_reschedule_timer"
           /\ last.ret = "True"
           /\ last'.op = "cancel_reschedule_timer"
           /\ last' # last)
          => /\ last'.ret = "False"
             /\ last'.timer_calls = <<>>]_vars

\* A call cancelled the timer that ran.
C10_Witness ==
    /\ last.op = "cancel_reschedule_timer"
    /\ last.ret = "True"
    /\ last.pre.timers # {}
    /\ Idle

(***************************************************************************)
(* What the claims about eval_schedule speak of, in terms of the loop      *)
(* state L.                                                                *)
(***************************************************************************)
\* The path visited last and the result of the path evaluated last.
LastVisited(L) == L.visited[Len(L.visited)]

LastYield(L) == L.yields[Len(L.yields)]

\* The last rule of a path.
FrontierRule(path) == path.rules[Len(path.rules)]

\* The paths of the worklist not visited yet: those at or after the cursor.
Remaining(L) == SubSeq(L.paths, L.path_idx + 1, Len(L.paths))

\* The sum of the payloads of the first n of the results ys.
RECURSIVE SumYields(_, _)
SumYields(ys, n) ==
    IF n = 0 THEN 0 ELSE ys[n].result.v + SumYields(ys, n - 1)

\* The results ys are one or more Add and then a Result, all of them with
\* a payload the actor type accepts.
AccumulateThenFinal(ys) ==
    /\ Len(ys) >= 2
    /\ \A i \in 1 .. Len(ys) :
          /\ ys[i].result.t = (IF i = Len(ys) THEN "Result" ELSE "Add")
          /\ ValueSupported(ys[i].result.v)

(***************************************************************************)
(* C11: when the resolution gives no result (no rule valid, every path     *)
(* skipped, no schedule, or Abort), apply_schedule in an idle room pushes  *)
(* nothing and leaves the scheduled value, the wanted value and the timer  *)
(* as they were; so after Abort the room is as after any other run         *)
(* without a result.                                                       *)
(***************************************************************************)
C11_NoResultNoChange ==
    (pc = "returned" /\ ReturnedValue(last.L) = None)
    => NothingDone(last) /\ Idle

\* A run that Abort ended while an Add was accumulated, in a room that has
\* a scheduled value.
C11_Witness ==
    /\ pc = "returned"
    /\ last.L.done /\ last.L.ret = <<>>
    /\ last.L.yields # <<>>
    /\ LastYield(last.L).result = Abort
    /\ last.L.result.t = "Add"
    /\ scheduled_value = 1 /\ wanted_value = 2

(***************************************************************************)
(* C12: on the path of rule 3 (its expression 1) below rule 2 (its         *)
(* expression 3), the third path a run visits when the rules are valid,    *)
(* the innermost expression decides: when it gives a                       *)
(* Result with an accepted value, that value is returned with rule 3       *)
(* whatever the outer expression would give; when it gives Skip, the path  *)
(* yields Skip and adds nothing; in both cases the outer expression is     *)
(* not evaluated for the path.                                             *)
(***************************************************************************)
C12_InnermostDecides ==
    (Len(last.L.visited) = 3 /\ LastVisited(last.L).rules = <<1, 2, 3>>)
    => /\ last.L.evals = <<1>>
       /\ LastYield(last.L).result = last.env.results[1]
       /\ (last.env.results[1].t = "Result"
             /\ ValueSupported(last.env.results[1].v))
          => /\ last.L.done
             /\ last.L.ret = <<last.env.results[1].v, 3>>
       /\ last.env.results[1] = Skip
          => /\ ~last.L.done
             /\ last.L.result = NoResult

\* The innermost expression gave Skip where the outer one gives a Result,
\* and the run went on to return the value of another path.
C12_Witness ==
    /\ pc = "returned"
    /\ last.env.results[1] = Skip
    /\ last.env.results[3] = Result(1)
    /\ last.env.results[2] = Result(2)
    /\ last.L.ret = <<2, 4>>
    /\ wanted_value = 2

\* C12 as the specification words it: when the innermost expression gives
\* Skip, the value of the outer expression is the result of the path.
C12_AsWorded ==
    (/\ pc = "returned"
     /\ {1, 2, 3} \subseteq last.env.valid
     /\ last.env.results[1] = Skip
     /\ last.env.results[3].t = "Result"
     /\ ValueSupported(last.env.results[3].v))
    => last.L.ret = <<last.env.results[3].v, 3>>

(***************************************************************************)
(* C13: when the paths evaluated give one or more Add and then a Result,   *)
(* all with accepted payloads, eval_schedule returns the sum of all the    *)
(* payloads with the last rule of the path that gave the Result.           *)
(***************************************************************************)
C13_Accumulation ==
    AccumulateThenFinal(last.L.yields)
    => /\ last.L.done
       /\ last.L.ret = <<SumYields(last.L.yields, Len(last.L.yields)),
                         FrontierRule(LastYield(last.L).path)>>

\* Two Add and a Result were summed and the sum was pushed.
C13_Witness ==
    /\ pc = "returned"
    /\ AccumulateThenFinal(last.L.yields)
    /\ Len(last.L.yields) = 3
    /\ wanted_value = SumYields(last.L.yields, 3)
    /\ last.pushes # <<>>

\* The path of the room's schedule with the given rules.
RoomPath(rules) == [root_schedule |-> RoomSchedule, rules |-> rules]

\* Some path of the sequence ps has the given rules.
HasRules(ps, rules) == \E i \in 1 .. Len(ps) : ps[i].rules = rules

\* Some path of the run gave IncludeSchedule of the room's schedule.
Reincluded(L) ==
    \E i \in 1 .. Len(L.yields) :
        L.yields[i].result = IncludeSchedule(RoomSchedule)

(***************************************************************************)
(* C14: Abort ends the run.  The path that gave Abort is the last path     *)
(* visited and the last one evaluated, no expression is evaluated after    *)
(* it, and eval_schedule returns no result, whatever was accumulated and   *)
(* whatever the paths still on the worklist would give.                    *)
(***************************************************************************)
C14_AbortEndsRun ==
    \A i \in 1 .. Len(last.L.yields) :
        last.L.yields[i].result = Abort
        => /\ i = Len(last.L.yields)
           /\ LastVisited(last.L) = last.L.yields[i].path
           /\ last.L.done
           /\ last.L.ret = <<>>
           /\ pc = "returned" => NothingDone(last)

\* Abort came after an Add was accumulated and while the path of rule 6,
\* which gives Result(1), was still on the worklist.
C14_Witness ==
    /\ pc = "returned"
    /\ last.L.yields # <<>>
    /\ LastYield(last.L).result = Abort
    /\ last.L.result = Add(1)
    /\ Remaining(last.L) # <<>>
    /\ Remaining(last.L)[Len(Remaining(last.L))] = RoomPath(<<6>>)
    /\ Len(last.L.visited) < Len(last.L.paths)

(***************************************************************************)
(* C15: the worklist holds the paths [1,2,3], [1,2,4], [1,5] (A = 1,       *)
(* B = 2, C = 3, D = 4, E = 5) and the path of rule 3 gives a Break.       *)
(* Break(2) leaves the 1-rule prefix [1]: both [1,2,4] and [1,5] are       *)
(* removed and never visited.  Break(1) leaves the prefix [1,2]: [1,2,4]   *)
(* is removed and never visited, [1,5] is kept and is the path visited     *)
(* next.  (A removed path is on the worklist again only in a run that      *)
(* includes the room's schedule anew.)                                     *)
(***************************************************************************)
C15_BreakExample ==
    (/\ last.L.yields # <<>>
     /\ last.L.yields[1].path = RoomPath(<<1, 2, 3>>)
     /\ last.L.yields[1].result.t = "Break")
    => /\ ~Reincluded(last.L) => ~HasRules(last.L.paths, <<1, 2, 4>>)
       /\ (last.L.yields[1].result.v = 2 /\ ~Reincluded(last.L))
          => ~HasRules(last.L.paths, <<1, 5>>)
       /\ (last.L.yields[1].result.v = 1 /\ 5 \in last.env.valid)
          => /\ Len(last.L.paths) >= 4
             /\ last.L.paths[4] = RoomPath(<<1, 5>>)
             /\ Len(last.L.visited) >= 4
                => last.L.visited[4] = RoomPath(<<1, 5>>)

\* Break(1) on the path of rule 3 with rules 4 and 5 valid: the path of
\* rule 5 was visited next and the run went on to rule 6.
C15_Witness ==
    /\ pc = "returned"
    /\ {4, 5, 6} \subseteq last.env.valid
    /\ last.L.yields # <<>>
    /\ last.L.yields[1] = [path |-> RoomPath(<<1, 2, 3>>), result |-> Break(1)]
    /\ Len(last.L.visited) >= 4
    /\ last.L.visited[4] = RoomPath(<<1, 5>>)
    /\ ~HasRules(last.L.visited, <<1, 2, 4>>)
    /\ last.L.ret = <<1, 6>>

\* C15 as the specification words it: after Break(2) on the path of rule 3
\* the path [1,5] is still on the worklist.
C15_AsWorded ==
    (/\ last.L.yields # <<>>
     /\ LastYield(last.L) = [path |-> RoomPath(<<1, 2, 3>>),
                             result |-> Break(2)]
     /\ 5 \in last.env.valid)
    => /\ ~HasRules(Remaining(last.L), <<1, 2, 4>>)
       /\ HasRules(Remaining(last.L), <<1, 5>>)

\* The path p has the root schedule of path and its first k rules.
SharesPrefix(p, path, k) ==
    /\ p.root_schedule = path.root_schedule
    /\ Prefix(p.rules, k) = Prefix(path.rules, k)

\* The worklist of the loop state L, taken before an iteration, without
\* the paths after the one at the cursor that share root and prefix with
\* the path of the result y, a Break.
PrunedWorklist(L, y) ==
    SubSeq(L.paths, 1, L.path_idx + 1)
    \o SelectSeq(SubSeq(L.paths, L.path_idx + 2, Len(L.paths)),
                 LAMBDA p : ~SharesPrefix(p, y.path,
                                Max(0, Len(y.path.rules) - y.result.v)))

(***************************************************************************)
(* C16: an iteration in which a path of length L gives Break(n) removes    *)
(* from the worklist every path not yet visited that has the root          *)
(* schedule and the first max(0, L - n) rules of that path, wherever it    *)
(* sits behind the cursor, and leaves all other paths in their order.      *)
(***************************************************************************)
C16_PruningRule ==
    [][(/\ pc = "apply_schedule"
        /\ Len(last'.L.yields) = Len(last.L.yields) + 1
        /\ LastYield(last'.L).result.t = "Break")
       => last'.L.paths = PrunedWorklist(last.L, LastYield(last'.L))]_vars

\* A Break on the path of rule 7 of an included snippet, prefix size 0: the
\* snippet's path of rule 8 was removed, the room's path of rule 6 stayed.
C16_Witness ==
    /\ last.L.yields # <<>>
    /\ LastYield(last.L).path = [root_schedule |-> SnippetSchedule,
                                 rules |-> <<7>>]
    /\ LastYield(last.L).result.t = "Break"
    /\ 8 \in last.env.valid
    /\ LastVisited(last.L) = LastYield(last.L).path
    /\ Remaining(last.L) = <<RoomPath(<<6>>)>>

\* The expression of the last rule of a path that has one, None otherwise.
FrontierExpr(path) == TheRules[FrontierRule(path)].expr

\* The sequence s has no element twice.
NoDuplicates(s) == \A i, j \in 1 .. Len(s) : s[i] = s[j] => i = j

(***************************************************************************)
(* C17: within one run of eval_schedule each expression is evaluated at    *)
(* most once, whatever it gave; every path whose last rule carries the     *)
(* expression gets the result of that one evaluation.                      *)
(***************************************************************************)
C17_Memoization ==
    /\ NoDuplicates(last.L.evals)
    /\ \A e \in Exprs :
          last.L.expr_cache[e] # NoResult
          <=> \E i \in 1 .. Len(last.L.evals) : last.L.evals[i] = e
    /\ \A i \in 1 .. Len(last.L.yields) :
          FrontierExpr(last.L.yields[i].path) # None
          => last.L.yields[i].result
                = last.L.expr_cache[FrontierExpr(last.L.yields[i].path)]

\* Expression 1 was used for the path of rule 3 and again for the path of
\* rule 7 of the included snippet, and evaluated once.
C17_Witness ==
    /\ pc = "returned"
    /\ Len(last.L.yields) >= 3
    /\ last.L.yields[1].path = RoomPath(<<1, 2, 3>>)
    /\ \E j \in 2 .. Len(last.L.yields) :
          /\ last.L.yields[j].path.rules = <<7>>
          /\ last.L.yields[j].result = last.L.yields[1].result
    /\ Len(last.L.evals) < Len(last.L.yields)
    /\ last.L.evals[1] = 1

\* What eval_schedule gives for the schedule and the environment, as
\* get_scheduled_value returns it: <<value, rule>>, or nothing.
Scheduled(sched, env) ==
    IF sched = None \/ eval_schedule(sched, env).status # "value" THEN <<>>
    ELSE <<eval_schedule(sched, env).value, eval_schedule(sched, env).rule>>

C19_ReadOnly ==
    last.op = "get_scheduled_value" => NothingDone(last)

\* A call in an idle room that returned a value other than the room's
\* scheduled value, from an expression reached after a Break.
C19_Witness ==
    /\ last.op = "get_scheduled_value"
    /\ last.result # <<>>
    /\ scheduled_value # None
    /\ last.result[1] # scheduled_value
    /\ last.args.env.results[1].t = "Break"
    /\ Idle

C30_RecordOnly ==
    (/\ last.op = "apply_schedule"
     /\ ~last.args.send
     /\ WasIdle(last)
     /\ ResolvedValue(last) # None
     /\ ResolvedValue(last) # last.pre.scheduled_value)
    => /\ scheduled_value = ResolvedValue(last)
       /\ last.pushes = <<>>
       /\ last.timer_calls = <<>>
       /\ wanted_value = last.pre.wanted_value
       /\ Idle

\* The record was updated to a value that is neither the scheduled value
\* before nor the wanted value, which stayed.
C30_Witness ==
    /\ last.op = "apply_schedule"
    /\ ~last.args.send
    /\ WasIdle(last)
    /\ last.pre.scheduled_value # None
    /\ ResolvedValue(last) \notin {None, last.pre.scheduled_value,
                                   last.pre.wanted_value}
    /\ scheduled_value = ResolvedValue(last)
    /\ wanted_value = last.pre.wanted_value
    /\ wanted_value # None

\* The re-schedule timer fired and, when the schedule resolved to a value,
\* that value was pushed to all actors and is the wanted value.
Rescheduled ==
    /\ last.op = "_reschedule_timer_cb"
    /\ ResolvedValue(last) # None
       => /\ PushedOnce(last, ResolvedValue(last))
          /\ wanted_value = ResolvedValue(last)

\* A timer callback pushed the value the schedule resolves to, and it is
\* the wanted value.
SchedulePushed ==
    /\ last.op \in {"_reschedule_timer_cb", "_schedule_timer_cb"}
    /\ ResolvedValue(last) # None
    /\ PushedOnce(last, ResolvedValue(last))
    /\ wanted_value = ResolvedValue(last)

\* The handler that ran last was a report of an actor with a value that is
\* neither the wanted nor the scheduled one, in a room that has a scheduled
\* value.
DriftReported ==
    /\ last.op = "notify_value_changed"
    /\ last.args.value # last.pre.wanted_value
    /\ last.pre.scheduled_value # None
    /\ last.args.value # last.pre.scheduled_value

(***************************************************************************)
(* C21: when an actor has reported a value other than the wanted one, a    *)
(* non-zero re-schedule delay being configured, and no request or report   *)
(* comes after it, then in every configuration the re-schedule timer fires *)
(* eventually, or a timer callback pushes the value the schedule resolves  *)
(* to and makes it the wanted value.                                       *)
(***************************************************************************)
C21_DriftCorrected ==
    (DriftReported /\ cfg.phase = "quiet") ~> (Rescheduled \/ SchedulePushed)

(***************************************************************************)
(* The while loop of eval_schedule on its own, run by an interpreter that  *)
(* keeps executing it.  The loop reads the worklist only at and after the  *)
(* cursor (paths[path_idx], the inserts at path_idx and the deletions at   *)
(* path_idx), so the loop state is kept without the paths before the       *)
(* cursor and without the record of what was visited; last holds it with   *)
(* the parity of the number of iterations made.                            *)
(***************************************************************************)
\* The loop state L with the visited part of the worklist left out.
Forget(L) ==
    [L EXCEPT !.paths = SubSeq(L.paths, L.path_idx + 1, Len(L.paths)),
              !.path_idx = 0,
              !.evals = <<>>, !.visited = <<>>, !.yields = <<>>]

\* The times and evaluation environments of the runs: all rules but the
\* last of the room's schedule and of the snippet are valid, or none is;
\* no expression includes the room's schedule.
RunEnvs ==
    [valid : {RuleIds \ {6, 8}, {}},
     results : [Exprs -> EvalResults \ {IncludeSchedule(RoomSchedule)}]]

InitRun ==
    /\ pc = "eval_schedule"
    /\ cfg = DefaultConfig
    /\ wanted_value = None
    /\ scheduled_value = None
    /\ reschedule_timer = None
    /\ timers = {}
    /\ current_value = [a \in Actors |-> None]
    /\ \E env \in RunEnvs :
          last = [op |-> "eval_schedule", env |-> env, iterations |-> 0,
                  L |-> StartLoop(cfg.schedule, env)]

\* One iteration of the while loop.
RunStep ==
    /\ pc = "eval_schedule"
    /\ ~LoopEnded(last.L)
    /\ last' = [last EXCEPT !.L = Forget(LoopBody(@, last.env)),
                            !.iterations = 1 - @]
    /\ UNCHANGED <<pc, cfg, wanted_value, scheduled_value, reschedule_timer,
                   timers, current_value>>

\* The loop has ended and eval_schedule returns.
RunReturn ==
    /\ pc = "eval_schedule"
    /\ LoopEnded(last.L)
    /\ pc' = "returned"
    /\ UNCHANGED <<cfg, wanted_value, scheduled_value, reschedule_timer,
                   timers, current_value, last>>

NextRun ==
    \/ RunStep
    \/ RunReturn

SpecRun ==
    /\ InitRun
    /\ [][NextRun]_vars
    /\ WF_vars(RunStep)
    /\ WF_vars(RunReturn)

(***************************************************************************)
(* C22: every run of eval_schedule terminates, also when an expression     *)
(* gives IncludeSchedule of a schedule that is being traversed: the run    *)
(* returns eventually.                                                     *)
(***************************************************************************)
C22_Terminates == <>(pc = "returned")

\* The loop state after at most n iterations from L.
RECURSIVE RunFor(_, _, _)
RunFor(L, env, n) ==
    IF n = 0 \/ LoopEnded(L) THEN L
    ELSE RunFor(LoopBody(L, env), env, n - 1)

\* The environment env with Skip() for every expression that raises.
SkipIfFails(env) ==
    [env EXCEPT !.results = [e \in Exprs |-> IF env.results[e] = Exception
                                             THEN Skip ELSE env.results[e]]]

\* Some path of the run L got an exception as its result.
SomeFailure(L) ==
    \E i \in 1 .. Len(L.yields) : L.yields[i].result = Exception

\* The loop states L and S agree on the worklist, the cursor, the paths
\* visited, the accumulator and on what is returned.
SameRun(L, S) ==
    /\ L.paths = S.paths /\ L.path_idx = S.path_idx
    /\ L.visited = S.visited
    /\ L.result = S.result
    /\ L.done = S.done /\ L.ret = S.ret
    /\ Len(L.yields) = Len(S.yields)
    /\ \A i \in 1 .. Len(L.yields) :
          /\ L.yields[i].path = S.yields[i].path
          /\ L.yields[i].result # Exception
             => L.yields[i].result = S.yields[i].result

(***************************************************************************)
(* C23: an exception from the evaluator is treated as Skip.  A run in      *)
(* which expressions raise is, after every iteration, where the run with   *)
(* Skip() in place of each raising expression is after as many            *)
(* iterations: same worklist and cursor (the traversal goes on with the    *)
(* same paths in the same order), same accumulator, same value and rule    *)
(* returned, and the same results for all other paths.                     *)
(***************************************************************************)
C23_FailureIsSkip ==
    (cfg.schedule # None /\ last.op = "apply_schedule")
    => SameRun(last.L,
               RunFor(StartLoop(cfg.schedule, SkipIfFails(last.env)),
                      SkipIfFails(last.env), Len(last.L.visited)))

C23_Witness ==
    /\ pc = "returned"
    /\ last.L.yields # <<>>
    /\ Len(last.L.yields) >= 3
    /\ last.L.yields[1].result.t = "Add"
    /\ last.L.yields[2].result = Exception
    /\ last.L.ret # <<>>
    /\ last.L.ret[1] = last.L.yields[1].result.v + LastYield(last.L).result.v

\* The paths of the rules of the sequence rules that are valid, each
\* appended to path_prefix and followed by the paths below it when it is a
\* rule with a sub-schedule, in the configured order.
RECURSIVE PreOrder(_, _, _)
PreOrder(path_prefix, rules, valid) ==
    IF rules = <<>> THEN <<>>
    ELSE IF Head(rules) \notin valid
    THEN PreOrder(path_prefix, Tail(rules), valid)
    ELSE <<[path_prefix EXCEPT !.rules = Append(@, Head(rules))]>>
         \o (IF TheRules[Head(rules)].kind = "sub"
             THEN PreOrder([path_prefix EXCEPT !.rules = Append(@, Head(rules))],
                           TheSchedules[TheRules[Head(rules)].sub_schedule],
                           valid)
             ELSE <<>>)
         \o PreOrder(path_prefix, Tail(rules), valid)

\* No path of the run L gave Break or IncludeSchedule.
PlainRun(L) ==
    \A i \in 1 .. Len(L.yields) :
        L.yields[i].result.t \notin {"Break", "IncludeSchedule"}

\* The paths of ps whose last rule has no sub-schedule.
ValuePaths(ps) ==
    SelectSeq(ps, LAMBDA p : TheRules[FrontierRule(p)].kind # "sub")

(***************************************************************************)
(* C24: the traversal is depth-first and in pre-order.  As long as no      *)
(* path gave Break or IncludeSchedule, the paths visited are the first     *)
(* ones of the pre-order list of the valid rules: the valid rules of a     *)
(* sub-schedule in the configured order, all of them with what is below    *)
(* them before any later sibling.  The paths that got a result are the     *)
(* visited paths whose last rule has no sub-schedule, and no more          *)
(* expressions were evaluated than paths got a result: the path of a rule  *)
(* with a sub-schedule yields nothing and evaluates nothing.               *)
(***************************************************************************)
C24_PreOrder ==
    (cfg.schedule # None /\ last.op = "apply_schedule" /\ PlainRun(last.L))
    => /\ last.L.visited
            = Prefix(PreOrder(RulePath(cfg.schedule),
                              TheSchedules[cfg.schedule], last.env.valid),
                     Len(last.L.visited))
       /\ [i \in 1 .. Len(last.L.yields) |-> last.L.yields[i].path]
            = ValuePaths(last.L.visited)
       /\ Len(last.L.evals) <= Len(last.L.yields)

C24_Witness ==
    /\ pc = "returned"
    /\ PlainRun(last.L)
    /\ last.env.valid = RuleIds
    /\ last.L.visited = <<RoomPath(<<1>>), RoomPath(<<1, 2>>),
                          RoomPath(<<1, 2, 3>>), RoomPath(<<1, 2, 4>>),
                          RoomPath(<<1, 5>>), RoomPath(<<6>>)>>
    /\ Len(last.L.yields) = 4
    /\ last.L.evals = <<1, 2, 3>>

\* The matching rules of the schedule sched as single-rule paths rooted at
\* sched.
SplicedPaths(sched, valid) ==
    [i \in 1 .. Len(get_matching_rules(sched, valid)) |->
        [root_schedule |-> sched,
         rules |-> <<get_matching_rules(sched, valid)[i]>>]]

\* The paths of ps that are not rooted at the schedule root.
OtherRoots(ps, root) == SelectSeq(ps, LAMBDA p : p.root_schedule # root)

\* The iteration from the loop state L to M, which gave the result y, was
\* an IncludeSchedule that put the included schedule's paths next.
Spliced(L, M, y, valid) ==
    Remaining(M) = SplicedPaths(y.result.v, valid) \o Tail(Remaining(L))

\* The iteration from L to M, which gave the result y, was a Break that
\* left alone the visited part of the worklist and every path that is not
\* rooted at the schedule of the breaking path.
BrokeOwnRoot(L, M, y) ==
    /\ SubSeq(M.paths, 1, M.path_idx) = SubSeq(L.paths, 1, L.path_idx + 1)
    /\ OtherRoots(Remaining(M), y.path.root_schedule)
         = OtherRoots(Tail(Remaining(L)), y.path.root_schedule)
    /\ \A i \in 1 .. Len(Remaining(M)) :
          \E j \in 1 .. Len(Remaining(L)) : Remaining(M)[i] = Remaining(L)[j]

(***************************************************************************)
(* C25: an iteration that gives IncludeSchedule puts the matching rules of *)
(* the included schedule next in the worklist, in order, as single-rule    *)
(* paths rooted at the included schedule, before the paths that remained.  *)
(* An iteration that gives Break, whatever its levels, removes only paths  *)
(* not yet visited that are rooted at the schedule of the breaking path:   *)
(* for a spliced path, the remaining paths of the including schedule stay  *)
(* in the worklist.                                                        *)
(***************************************************************************)
C25_SpliceAndBreak ==
    [][(pc = "apply_schedule"
        /\ Len(last'.L.yields) = Len(last.L.yields) + 1)
       => /\ LastYield(last'.L).result.t = "IncludeSchedule"
             => Spliced(last.L, last'.L, LastYield(last'.L), last.env.valid)
          /\ LastYield(last'.L).result.t = "Break"
             => BrokeOwnRoot(last.L, last'.L, LastYield(last'.L))]_vars

C25_Witness ==
    /\ pc = "returned"
    /\ last.env.valid = RuleIds \ {3}
    /\ Len(last.L.yields) = 4
    /\ last.L.yields[2].result = IncludeSchedule(SnippetSchedule)
    /\ last.L.yields[2].path = RoomPath(<<1, 5>>)
    /\ last.L.yields[3].result = Break(2)
    /\ last.L.yields[3].path = [root_schedule |-> SnippetSchedule,
                                rules |-> <<7>>]
    /\ last.L.yields[4].path = RoomPath(<<6>>)
    /\ Len(last.L.visited) = 6

\* The validator rejects the value v.
Rejected(v) == validate_value(v) = None

\* The result r cannot be added to the accumulator acc: one of the values
\* is a number and the other a text.
CannotAdd(acc, r) == acc # NoResult /\ (acc.v = Text) # (r.v = Text)

\* The iteration from the loop state L to M went on to the next path.
WentOn(L, M) ==
    /\ ~M.done /\ M.ret = <<>>
    /\ M.paths = L.paths /\ M.path_idx = L.path_idx + 1

(***************************************************************************)
(* C26: a path whose addible result has a value the validator rejects, or  *)
(* cannot be added to what was accumulated, contributes nothing: the       *)
(* accumulator stays as it was and the traversal goes on with the next     *)
(* path.  Any other addible result is folded onto the accumulator as it    *)
(* is then: it becomes the accumulator when there is none, and otherwise   *)
(* the sum with the accumulator, of its own type.                          *)
(***************************************************************************)
C26_SkippedContributesNothing ==
    [][(/\ pc = "apply_schedule"
        /\ Len(last'.L.yields) = Len(last.L.yields) + 1
        /\ IsAddible(LastYield(last'.L).result))
       => IF \/ Rejected(LastYield(last'.L).result.v)
             \/ CannotAdd(last.L.result, LastYield(last'.L).result)
          THEN last'.L.result = last.L.result /\ WentOn(last.L, last'.L)
          ELSE /\ last'.L.result.t = LastYield(last'.L).result.t
               /\ last'.L.result.v
                    = IF last.L.result = NoResult
                      THEN LastYield(last'.L).result.v
                      ELSE IF last.L.result.v = Text THEN Text
                      ELSE last.L.result.v + LastYield(last'.L).result.v]_vars

C26_Witness ==
    /\ pc = "returned"
    /\ last.env.valid = RuleIds
    /\ [i \in 1 .. Len(last.L.yields) |-> last.L.yields[i].result]
         = <<Add(1), Add(0), Add(Text), Result(1)>>
    /\ last.L.ret = <<2, 6>>

\* The result y of a path is a Result that is folded onto the accumulator
\* acc: its value is accepted and can be added.
FoldsToFinal(acc, y) ==
    /\ y.result.t = "Result"
    /\ ~Rejected(y.result.v)
    /\ ~CannotAdd(acc, y.result)

(***************************************************************************)
(* C27: the first Final wins.  The iteration in which a Result is folded   *)
(* ends the run: eval_schedule returns the folded value with the last rule *)
(* of that path, which is the last path visited; once the run has ended no *)
(* path is visited and no expression evaluated any more.  A run returns a  *)
(* result only from such an iteration: when the worklist is exhausted with *)
(* only Add results folded, it returns None and the room is left alone.    *)
(***************************************************************************)
C27_FirstFinalWins ==
    [][(pc = "apply_schedule" /\ cfg.schedule # None)
       => /\ (/\ Len(last'.L.yields) = Len(last.L.yields) + 1
              /\ FoldsToFinal(last.L.result, LastYield(last'.L)))
             => /\ last'.L.done
                /\ last'.L.ret = <<last'.L.result.v,
                                   FrontierRule(LastYield(last'.L).path)>>
                /\ LastVisited(last'.L) = LastYield(last'.L).path
          /\ (/\ Len(last'.L.yields) = Len(last.L.yields) + 1
              /\ ~FoldsToFinal(last.L.result, LastYield(last'.L)))
             => last'.L.ret = <<>>
          /\ Len(last'.L.yields) = Len(last.L.yields)
             => last'.L.ret = last.L.ret
          /\ LoopEnded(last.L)
             => /\ pc' = "returned"
                /\ last'.L = last.L
                /\ last.L.ret = <<>>
                   => /\ last'.resolutions = <<None>>
                      /\ last'.pushes = <<>>
                      /\ wanted_value' = wanted_value
                      /\ scheduled_value' = scheduled_value]_vars

\* A Result was folded onto an accumulated Add while paths were left.
C27_Witness ==
    /\ pc = "returned"
    /\ Len(last.L.yields) = 2
    /\ last.L.yields[1].result = Add(1)
    /\ last.L.yields[2].result = Result(2)
    /\ last.L.ret = <<3, 4>>
    /\ Len(Remaining(last.L)) = 2
    /\ last.resolutions = <<3>>

\* The handler that ran last was a schedule timer that found a re-schedule
\* timer running and left the schedule alone, and that timer or a later
\* one is still running.
BoundaryDeferred ==
    /\ last.op = "_schedule_timer_cb"
    /\ last.pre.reschedule_timer # None
    /\ reschedule_timer # None

(***************************************************************************)
(* C28: a boundary that was skipped because a re-schedule timer was        *)
(* running is not lost.  Whatever reports of the actors come after it,     *)
(* finitely many, the re-schedule timer fires eventually: the schedule is  *)
(* resolved again and its value pushed, without a later boundary.          *)
(***************************************************************************)
C28_DeferredNotLost ==
    (BoundaryDeferred /\ cfg.phase # "requests") ~> Rescheduled

\* The handler that ran last was a schedy_set_value event with a value the
\* validator accepts and that is not the scheduled one, which armed the
\* re-schedule timer.
ManualOverride ==
    /\ last.op = "set_value_manually"
    /\ ValueSupported(Requested(last))
    /\ wanted_value = Requested(last)
    /\ scheduled_value \notin {None, wanted_value}
    /\ reschedule_timer # None

(***************************************************************************)
(* C29: a manual override is handed back to the schedule.  After a valid   *)
(* schedy_set_value event that no other such event follows, whatever       *)
(* reports of the actors come after it, finitely many, the re-schedule     *)
(* timer fires eventually and the value the schedule resolves to is        *)
(* pushed and becomes the wanted value (here also when it is a schedule    *)
(* timer that pushes it).                                                  *)
(***************************************************************************)
C29_OverrideHandedBack ==
    (ManualOverride /\ cfg.phase = "reports")
        ~> (Rescheduled \/ SchedulePushed)

====
